---------------------------- MODULE Spec2Model ----------------------------
(***************************************************************************)
(* Model of the RPC dispatch layer in src/utils/py/data/dispatcher.rs:     *)
(* process_single_request (decode, local-only gate, ban gate, auth),       *)
(* the hierarchical method router dispatcher_v2 with its sub-dispatchers,  *)
(* and handle_mmrpc; and of the task registry behind the task:: methods,   *)
(* whose code is not in that file and which follows the specification of   *)
(* the registry's contract.                                                *)
(*                                                                         *)
(* Representation of method strings.  A method string is represented by    *)
(* the sequence of its segments, i.e. the string split on the literal      *)
(* delimiter "::".  "task::withdraw::init" is <<"task","withdraw","init">>,*)
(* "task::" is <<"task", "">> and "withdraw" is <<"withdraw">>.            *)
(* str.strip_prefix("ns::") succeeds exactly when the first segment is     *)
(* "ns" and a delimiter follows it, i.e. the sequence has a second segment;*)
(* the remainder is the tail of the sequence.  A match arm "a::b" matches  *)
(* exactly the sequence <<"a","b">>.                                       *)
(***************************************************************************)
EXTENDS Integers, Sequences, FiniteSets, TLC

(***************************************************************************)
(* Bounds of the model.                                                    *)
(***************************************************************************)
\* number of failed attempts a client may accumulate before it is banned
RateLimitThreshold == 1
\* number of other invocations that may be suspended in process_rate_limit
MaxInFlight == 1
\* number of tasks created over the lifetime of the process
MaxTasks == 2

(***************************************************************************)
(* JSON values (serde_json::Value) as far as the dispatcher looks at them. *)
(***************************************************************************)
JAbsent == [t |-> "absent", v |-> <<>>]
JNull == [t |-> "null", v |-> <<>>]
JNum(n) == [t |-> "number", v |-> <<n>>]
\* a JSON string; v holds the string (a method string is held as segments)
JStr(s) == [t |-> "string", v |-> <<s>>]

\* Option<T>
None == [v |-> <<>>, some |-> FALSE]
Some(x) == [v |-> <<x>>, some |-> TRUE]
Unwrap(o) == o.v[1]

(***************************************************************************)
(* Method strings.                                                         *)
(***************************************************************************)
\* variant: the namespace is looked for anywhere in the method string
StripPrefix_Anywhere(method, ns) ==
    LET at == { i \in 1..(Len(method) - 1) : method[i] = ns }
        first == CHOOSE i \in at : \A j \in at : i <= j
    IN  IF at # {} THEN Some(SubSeq(method, first + 1, Len(method))) ELSE None

\* str::strip_prefix(ns ++ "::"): Some(remainder) or None
StripPrefix(method, ns) ==
    IF Len(method) >= 2 /\ method[1] = ns THEN Some(Tail(method)) ELSE None

\* lookup of a remainder in the arms of a `match`; the `_` arm is NoSuchMethod
NoSuchMethod == "NoSuchMethod"
MatchArms(table, key) ==
    IF key \in DOMAIN table THEN table[key] ELSE NoSuchMethod

TopLevelTable ==
    (<<"account_balance">> :> "account_balance")
    @@ (<<"active_swaps">> :> "active_swaps_rpc")
    @@ (<<"add_node_to_version_stat">> :> "add_node_to_version_stat")
    @@ (<<"approve_token">> :> "approve_token_rpc")
    @@ (<<"get_token_allowance">> :> "get_token_allowance_rpc")
    @@ (<<"best_orders">> :> "best_orders_rpc_v2")
    @@ (<<"clear_nft_db">> :> "clear_nft_db")
    @@ (<<"enable_bch_with_tokens">> :> "enable_platform_coin_with_tokens::<BchCoin>")
    @@ (<<"enable_slp">> :> "enable_token::<SlpToken>")
    @@ (<<"enable_eth_with_tokens">> :> "enable_platform_coin_with_tokens::<EthCoin>")
    @@ (<<"enable_erc20">> :> "enable_token::<EthCoin>")
    @@ (<<"enable_nft">> :> "enable_token::<EthCoin>")
    @@ (<<"enable_tendermint_with_assets">> :> "enable_platform_coin_with_tokens::<TendermintCoin>")
    @@ (<<"enable_tendermint_token">> :> "enable_token::<TendermintToken>")
    @@ (<<"get_current_mtp">> :> "get_current_mtp_rpc")
    @@ (<<"get_enabled_coins">> :> "get_enabled_coins")
    @@ (<<"get_locked_amount">> :> "get_locked_amount_rpc")
    @@ (<<"get_mnemonic">> :> "get_mnemonic_rpc")
    @@ (<<"get_my_address">> :> "get_my_address")
    @@ (<<"get_new_address">> :> "get_new_address")
    @@ (<<"get_nft_list">> :> "get_nft_list")
    @@ (<<"get_nft_metadata">> :> "get_nft_metadata")
    @@ (<<"get_nft_transfers">> :> "get_nft_transfers")
    @@ (<<"get_public_key">> :> "get_public_key")
    @@ (<<"get_public_key_hash">> :> "get_public_key_hash")
    @@ (<<"get_raw_transaction">> :> "get_raw_transaction")
    @@ (<<"get_shared_db_id">> :> "get_shared_db_id")
    @@ (<<"get_token_info">> :> "get_token_info")
    @@ (<<"get_wallet_names">> :> "get_wallet_names_rpc")
    @@ (<<"max_maker_vol">> :> "max_maker_vol")
    @@ (<<"my_recent_swaps">> :> "my_recent_swaps_rpc")
    @@ (<<"my_swap_status">> :> "my_swap_status_rpc")
    @@ (<<"my_tx_history">> :> "my_tx_history_v2_rpc")
    @@ (<<"orderbook">> :> "orderbook_rpc_v2")
    @@ (<<"recreate_swap_data">> :> "recreate_swap_data")
    @@ (<<"refresh_nft_metadata">> :> "refresh_nft_metadata")
    @@ (<<"remove_node_from_version_stat">> :> "remove_node_from_version_stat")
    @@ (<<"sign_message">> :> "sign_message")
    @@ (<<"sign_raw_transaction">> :> "sign_raw_transaction")
    @@ (<<"start_simple_market_maker_bot">> :> "start_simple_market_maker_bot")
    @@ (<<"start_version_stat_collection">> :> "start_version_stat_collection")
    @@ (<<"stop_simple_market_maker_bot">> :> "stop_simple_market_maker_bot")
    @@ (<<"stop_version_stat_collection">> :> "stop_version_stat_collection")
    @@ (<<"trade_preimage">> :> "trade_preimage_rpc")
    @@ (<<"trezor_connection_status">> :> "trezor_connection_status")
    @@ (<<"update_nft">> :> "update_nft")
    @@ (<<"change_mnemonic_password">> :> "change_mnemonic_password")
    @@ (<<"update_version_stat_collection">> :> "update_version_stat_collection")
    @@ (<<"verify_message">> :> "verify_message")
    @@ (<<"withdraw">> :> "withdraw")
    @@ (<<"ibc_chains">> :> "ibc_chains")
    @@ (<<"ibc_transfer_channels">> :> "ibc_transfer_channels")
    @@ (<<"peer_connection_healthcheck">> :> "peer_connection_healthcheck_rpc")
    @@ (<<"withdraw_nft">> :> "withdraw_nft")
    @@ (<<"get_eth_estimated_fee_per_gas">> :> "get_eth_estimated_fee_per_gas")
    @@ (<<"get_swap_transaction_fee_policy">> :> "get_swap_transaction_fee_policy")
    @@ (<<"set_swap_transaction_fee_policy">> :> "set_swap_transaction_fee_policy")
    @@ (<<"send_asked_data">> :> "send_asked_data_rpc")
    @@ (<<"z_coin_tx_history">> :> "coins::my_tx_history_v2::z_coin_tx_history_rpc")
    @@ (<<"1inch_v6_0_classic_swap_contract">> :> "one_inch_v6_0_classic_swap_contract_rpc")
    @@ (<<"1inch_v6_0_classic_swap_quote">> :> "one_inch_v6_0_classic_swap_quote_rpc")
    @@ (<<"1inch_v6_0_classic_swap_create">> :> "one_inch_v6_0_classic_swap_create_rpc")
    @@ (<<"1inch_v6_0_classic_swap_liquidity_sources">> :> "one_inch_v6_0_classic_swap_liquidity_sources_rpc")
    @@ (<<"1inch_v6_0_classic_swap_tokens">> :> "one_inch_v6_0_classic_swap_tokens_rpc")

TaskTable ==
    (<<"account_balance", "cancel">> :> "cancel_account_balance")
    @@ (<<"account_balance", "init">> :> "init_account_balance")
    @@ (<<"account_balance", "status">> :> "init_account_balance_status")
    @@ (<<"create_new_account", "cancel">> :> "cancel_create_new_account")
    @@ (<<"create_new_account", "init">> :> "init_create_new_account")
    @@ (<<"create_new_account", "status">> :> "init_create_new_account_status")
    @@ (<<"create_new_account", "user_action">> :> "init_create_new_account_user_action")
    @@ (<<"enable_bch", "cancel">> :> "cancel_init_standalone_coin::<BchCoin>")
    @@ (<<"enable_bch", "init">> :> "init_standalone_coin::<BchCoin>")
    @@ (<<"enable_bch", "status">> :> "init_standalone_coin_status::<BchCoin>")
    @@ (<<"enable_bch", "user_action">> :> "init_standalone_coin_user_action::<BchCoin>")
    @@ (<<"enable_qtum", "cancel">> :> "cancel_init_standalone_coin::<QtumCoin>")
    @@ (<<"enable_qtum", "init">> :> "init_standalone_coin::<QtumCoin>")
    @@ (<<"enable_qtum", "status">> :> "init_standalone_coin_status::<QtumCoin>")
    @@ (<<"enable_qtum", "user_action">> :> "init_standalone_coin_user_action::<QtumCoin>")
    @@ (<<"enable_utxo", "cancel">> :> "cancel_init_standalone_coin::<UtxoStandardCoin>")
    @@ (<<"enable_utxo", "init">> :> "init_standalone_coin::<UtxoStandardCoin>")
    @@ (<<"enable_utxo", "status">> :> "init_standalone_coin_status::<UtxoStandardCoin>")
    @@ (<<"enable_utxo", "user_action">> :> "init_standalone_coin_user_action::<UtxoStandardCoin>")
    @@ (<<"enable_eth", "cancel">> :> "cancel_init_platform_coin_with_tokens::<EthCoin>")
    @@ (<<"enable_eth", "init">> :> "init_platform_coin_with_tokens::<EthCoin>")
    @@ (<<"enable_eth", "status">> :> "init_platform_coin_with_tokens_status::<EthCoin>")
    @@ (<<"enable_eth", "user_action">> :> "init_platform_coin_with_tokens_user_action::<EthCoin>")
    @@ (<<"enable_erc20", "cancel">> :> "cancel_init_token::<EthCoin>")
    @@ (<<"enable_erc20", "init">> :> "init_token::<EthCoin>")
    @@ (<<"enable_erc20", "status">> :> "init_token_status::<EthCoin>")
    @@ (<<"enable_erc20", "user_action">> :> "init_token_user_action::<EthCoin>")
    @@ (<<"enable_tendermint", "cancel">> :> "cancel_init_platform_coin_with_tokens::<TendermintCoin>")
    @@ (<<"enable_tendermint", "init">> :> "init_platform_coin_with_tokens::<TendermintCoin>")
    @@ (<<"enable_tendermint", "status">> :> "init_platform_coin_with_tokens_status::<TendermintCoin>")
    @@ (<<"enable_tendermint", "user_action">> :> "init_platform_coin_with_tokens_user_action::<TendermintCoin>")
    @@ (<<"get_new_address", "cancel">> :> "cancel_get_new_address")
    @@ (<<"get_new_address", "init">> :> "init_get_new_address")
    @@ (<<"get_new_address", "status">> :> "init_get_new_address_status")
    @@ (<<"get_new_address", "user_action">> :> "init_get_new_address_user_action")
    @@ (<<"scan_for_new_addresses", "cancel">> :> "cancel_scan_for_new_addresses")
    @@ (<<"scan_for_new_addresses", "init">> :> "init_scan_for_new_addresses")
    @@ (<<"scan_for_new_addresses", "status">> :> "init_scan_for_new_addresses_status")
    @@ (<<"init_trezor", "cancel">> :> "cancel_init_trezor")
    @@ (<<"init_trezor", "init">> :> "init_trezor")
    @@ (<<"init_trezor", "status">> :> "init_trezor_status")
    @@ (<<"init_trezor", "user_action">> :> "init_trezor_user_action")
    @@ (<<"withdraw", "cancel">> :> "cancel_withdraw")
    @@ (<<"withdraw", "init">> :> "init_withdraw")
    @@ (<<"withdraw", "status">> :> "withdraw_status")
    @@ (<<"withdraw", "user_action">> :> "withdraw_user_action")
    @@ (<<"enable_z_coin", "init">> :> "init_standalone_coin::<ZCoin>")
    @@ (<<"enable_z_coin", "cancel">> :> "cancel_init_standalone_coin::<ZCoin>")
    @@ (<<"enable_z_coin", "status">> :> "init_standalone_coin_status::<ZCoin>")
    @@ (<<"enable_z_coin", "user_action">> :> "init_standalone_coin_user_action::<ZCoin>")


EnableSiaTaskTable ==
    (<<"enable_sia", "init">> :> "init_standalone_coin::<SiaCoin>")
    @@ (<<"enable_sia", "status">> :> "init_standalone_coin_status::<SiaCoin>")

NativeOnlyTaskTable ==
    (<<"enable_lightning", "cancel">> :> "cancel_init_l2::<LightningCoin>")
    @@ (<<"enable_lightning", "init">> :> "init_l2::<LightningCoin>")
    @@ (<<"enable_lightning", "status">> :> "init_l2_status::<LightningCoin>")
    @@ (<<"enable_lightning", "user_action">> :> "init_l2_user_action::<LightningCoin>")

WasmOnlyTaskTable ==
    (<<"connect_metamask", "cancel">> :> "cancel_connect_metamask")
    @@ (<<"connect_metamask", "init">> :> "connect_metamask")
    @@ (<<"connect_metamask", "status">> :> "connect_metamask_status")

StreamingTable ==
    (<<"balance", "enable">> :> "streaming_activations::enable_balance")
    @@ (<<"network", "enable">> :> "streaming_activations::enable_network")
    @@ (<<"heartbeat", "enable">> :> "streaming_activations::enable_heartbeat")
    @@ (<<"fee_estimator", "enable">> :> "streaming_activations::enable_fee_estimation")
    @@ (<<"swap_status", "enable">> :> "streaming_activations::enable_swap_status")
    @@ (<<"order_status", "enable">> :> "streaming_activations::enable_order_status")
    @@ (<<"tx_history", "enable">> :> "streaming_activations::enable_tx_history")
    @@ (<<"orderbook", "enable">> :> "streaming_activations::enable_orderbook")
    @@ (<<"disable">> :> "streaming_activations::disable_streamer")

GuiStorageTable ==
    (<<"activate_coins">> :> "gui_storage_rpc::activate_coins")
    @@ (<<"add_account">> :> "gui_storage_rpc::add_account")
    @@ (<<"deactivate_coins">> :> "gui_storage_rpc::deactivate_coins")
    @@ (<<"delete_account">> :> "gui_storage_rpc::delete_account")
    @@ (<<"enable_account">> :> "gui_storage_rpc::enable_account")
    @@ (<<"get_accounts">> :> "gui_storage_rpc::get_accounts")
    @@ (<<"get_account_coins">> :> "gui_storage_rpc::get_account_coins")
    @@ (<<"get_enabled_account">> :> "gui_storage_rpc::get_enabled_account")
    @@ (<<"set_account_balance">> :> "gui_storage_rpc::set_account_balance")
    @@ (<<"set_account_description">> :> "gui_storage_rpc::set_account_description")
    @@ (<<"set_account_name">> :> "gui_storage_rpc::set_account_name")

LightningTable ==
    (<<"channels", "close_channel">> :> "channels::close_channel")
    @@ (<<"channels", "get_channel_details">> :> "channels::get_channel_details")
    @@ (<<"channels", "get_claimable_balances">> :> "channels::get_claimable_balances")
    @@ (<<"channels", "list_closed_channels_by_filter">> :> "channels::list_closed_channels_by_filter")
    @@ (<<"channels", "list_open_channels_by_filter">> :> "channels::list_open_channels_by_filter")
    @@ (<<"channels", "open_channel">> :> "channels::open_channel")
    @@ (<<"channels", "update_channel">> :> "channels::update_channel")
    @@ (<<"nodes", "add_trusted_node">> :> "nodes::add_trusted_node")
    @@ (<<"nodes", "connect_to_node">> :> "nodes::connect_to_node")
    @@ (<<"nodes", "list_trusted_nodes">> :> "nodes::list_trusted_nodes")
    @@ (<<"nodes", "remove_trusted_node">> :> "nodes::remove_trusted_node")
    @@ (<<"payments", "generate_invoice">> :> "payments::generate_invoice")
    @@ (<<"payments", "get_payment_details">> :> "payments::get_payment_details")
    @@ (<<"payments", "list_payments_by_filter">> :> "payments::list_payments_by_filter")
    @@ (<<"payments", "send_payment">> :> "payments::send_payment")

StakingQueryTable ==
    (<<"delegations">> :> "delegations_info")
    @@ (<<"ongoing_undelegations">> :> "ongoing_undelegations_info")
    @@ (<<"validators">> :> "validators_info")

StakingTable ==
    (<<"claim_rewards">> :> "claim_staking_rewards")
    @@ (<<"delegate">> :> "add_delegation")
    @@ (<<"undelegate">> :> "remove_delegation")

(***************************************************************************)
(* The method router.  Each dispatcher yields the name of the handler it   *)
(* passes to handle_mmrpc, or NoSuchMethod.  `build` is the build          *)
(* configuration: target_arch = "wasm32" or not, feature "enable-sia".     *)
(***************************************************************************)
Builds == [enable_sia : BOOLEAN, wasm32 : BOOLEAN]

query_dispatcher(staking_query_method) ==
    MatchArms(StakingQueryTable, staking_query_method)

staking_dispatcher(staking_method) ==
    LET query_method == StripPrefix(staking_method, "query") IN
    IF query_method.some
        THEN query_dispatcher(Unwrap(query_method))
        ELSE MatchArms(StakingTable, staking_method)

\* variant: the "staking::" prefix is optional
experimental_rpcs_dispatcher_StakingOptional(experimental_method) ==
    LET staking_method == StripPrefix(experimental_method, "staking") IN
    IF staking_method.some
        THEN staking_dispatcher(Unwrap(staking_method))
        ELSE staking_dispatcher(experimental_method)

experimental_rpcs_dispatcher(experimental_method) ==
    LET staking_method == StripPrefix(experimental_method, "staking") IN
    IF staking_method.some
        THEN staking_dispatcher(Unwrap(staking_method))
        ELSE NoSuchMethod

\* variant: the target-specific arms of both targets are compiled in
rpc_task_dispatcher_AllTargets(task_method, build) ==
    IF task_method \in DOMAIN TaskTable
        THEN TaskTable[task_method]
    ELSE IF build.enable_sia /\ task_method \in DOMAIN EnableSiaTaskTable
        THEN EnableSiaTaskTable[task_method]
    ELSE IF task_method \in DOMAIN NativeOnlyTaskTable
        THEN NativeOnlyTaskTable[task_method]
        ELSE MatchArms(WasmOnlyTaskTable, task_method)

rpc_task_dispatcher(task_method, build) ==
    IF task_method \in DOMAIN TaskTable
        THEN TaskTable[task_method]
    ELSE IF build.enable_sia /\ task_method \in DOMAIN EnableSiaTaskTable
        THEN EnableSiaTaskTable[task_method]
    ELSE IF ~build.wasm32
        THEN MatchArms(NativeOnlyTaskTable, task_method)
        ELSE MatchArms(WasmOnlyTaskTable, task_method)

rpc_streaming_dispatcher(streaming_request) ==
    MatchArms(StreamingTable, streaming_request)

gui_storage_dispatcher(gui_storage_method) ==
    MatchArms(GuiStorageTable, gui_storage_method)

lightning_dispatcher(lightning_method) ==
    MatchArms(LightningTable, lightning_method)

\* variant: a method whose remainder misses in its namespace falls back to the
\* flat table of top-level names
dispatcher_v2_FallsBackToFlat(method, build) ==
    LET streaming_request == StripPrefix(method, "stream")
        task_method == StripPrefix(method, "task")
        gui_storage_method == StripPrefix(method, "gui_storage")
        experimental_method == StripPrefix(method, "experimental")
        lightning_method == StripPrefix(method, "lightning")
        \* a sub-router's miss is looked up in the flat table on the remainder
        OrFlat(handler) ==
            IF handler = NoSuchMethod THEN MatchArms(TopLevelTable, Tail(method)) ELSE handler
    IN  IF streaming_request.some
            THEN OrFlat(rpc_streaming_dispatcher(Unwrap(streaming_request)))
        ELSE IF task_method.some
            THEN OrFlat(rpc_task_dispatcher(Unwrap(task_method), build))
        ELSE IF gui_storage_method.some
            THEN OrFlat(gui_storage_dispatcher(Unwrap(gui_storage_method)))
        ELSE IF experimental_method.some
            THEN OrFlat(experimental_rpcs_dispatcher(Unwrap(experimental_method)))
        ELSE IF ~build.wasm32 /\ lightning_method.some
            THEN OrFlat(lightning_dispatcher(Unwrap(lightning_method)))
        ELSE MatchArms(TopLevelTable, method)

dispatcher_v2(method, build) ==
    LET streaming_request == StripPrefix(method, "stream")
        task_method == StripPrefix(method, "task")
        gui_storage_method == StripPrefix(method, "gui_storage")
        experimental_method == StripPrefix(method, "experimental")
        lightning_method == StripPrefix(method, "lightning")
    IN  IF streaming_request.some
            THEN rpc_streaming_dispatcher(Unwrap(streaming_request))
        ELSE IF task_method.some
            THEN rpc_task_dispatcher(Unwrap(task_method), build)
        ELSE IF gui_storage_method.some
            THEN gui_storage_dispatcher(Unwrap(gui_storage_method))
        ELSE IF experimental_method.some
            THEN experimental_rpcs_dispatcher(Unwrap(experimental_method))
        ELSE IF ~build.wasm32 /\ lightning_method.some
            THEN lightning_dispatcher(Unwrap(lightning_method))
        ELSE MatchArms(TopLevelTable, method)

(***************************************************************************)
(* Inputs of the dispatch entry point.                                     *)
(***************************************************************************)
\* SocketAddr of the caller; the rate limiter is keyed by client.ip()
Clients == { [ip |-> "127.0.0.1", port |-> 7783], [ip |-> "203.0.113.7", port |-> 40000] }
Ips == { c.ip : c \in Clients }
is_loopback(ip) == ip = "127.0.0.1"

\* credentials that occur in requests and in the configuration
Passwords == { "", "pw" }

\* ctx.conf: "rpc_password" is a string or is not set
Confs == { [rpc_password |-> JAbsent], [rpc_password |-> JStr("pw")] }

\* method strings sent by clients: public and routed, public and not routed,
\* protected and routed (flat, in a namespace, in a namespace of one build
\* only), protected and not routed
MethodInputs ==
    { <<"orderbook">>, <<"help">>, <<"withdraw">>, <<"task", "withdraw", "init">>,
      <<"lightning", "nodes", "list_trusted_nodes">>, <<"no_such_method">> }

\* request values that decode into the envelope
WellFormedRequests ==
    { [method |-> JStr(m), id |-> JNum(1), mmrpc |-> JStr("2.0"), userpass |-> u] :
        m \in MethodInputs, u \in { JAbsent } \cup { JStr(p) : p \in Passwords } }

\* request values that do not: required field absent, required field
\* mistyped, unsupported protocol version
MalformedRequests ==
    { [method |-> JAbsent, id |-> JNum(1), mmrpc |-> JStr("2.0"), userpass |-> JStr("pw")],
      [method |-> JNum(1), id |-> JNum(1), mmrpc |-> JStr("2.0"), userpass |-> JStr("pw")],
      [method |-> JStr(<<"withdraw">>), id |-> JNum(1), mmrpc |-> JStr("1.0"), userpass |-> JStr("pw")],
      [method |-> JStr(<<"withdraw">>), id |-> JNum(1), mmrpc |-> JStr("2.0"), userpass |-> JNum(1)] }

RawRequests == WellFormedRequests \cup MalformedRequests

(***************************************************************************)
(* Envelope codec: json::from_value::<MmRpcRequest>(req).                  *)
(***************************************************************************)
DecodeOk(raw) ==
    /\ raw.mmrpc.t = "string" /\ raw.mmrpc.v[1] = "2.0"
    /\ raw.method.t = "string"
    /\ raw.userpass.t \in { "absent", "null", "string" }

Decode(raw) ==
    [ method |-> raw.method.v[1],
      id |-> IF raw.id.t = "number" THEN Some(raw.id.v[1]) ELSE None,
      mmrpc |-> "V2",
      userpass |-> IF raw.userpass.t = "string" THEN Some(raw.userpass.v[1]) ELSE None ]

(***************************************************************************)
(* Gates of process_single_request.                                        *)
(***************************************************************************)
\* methods exempt from authentication and from the loopback restriction
PUBLIC_METHODS ==
    { <<"fundvalue">>, <<"getprice">>, <<"getpeers">>, <<"getcoins">>, <<"help">>,
      <<"metrics">>, <<"notify">>, <<"orderbook">>, <<"passphrase">>, <<"pricearray">>,
      <<"psock">>, <<"statsdisp">>, <<"stats_swap_status">>, <<"tradesarray">>, <<"ticker">> }

\* variant: the local-only gate without the exemption of public methods
LocalHostOnly_NoPublicExemption(request, client, local_only) ==
    local_only /\ ~is_loopback(client.ip)

\* the condition of the local-only gate
LocalHostOnly(request, client, local_only) ==
    local_only /\ ~is_loopback(client.ip) /\ request.method \notin PUBLIC_METHODS

\* ctx.conf["rpc_password"].as_str().unwrap_or_else(|| "")
rpc_password(conf) ==
    IF conf.rpc_password.t = "string" THEN conf.rpc_password.v[1] ELSE ""

\* outcomes of auth up to its await
AuthOk == "Ok"
AuthRateLimit == "process_rate_limit"
AuthNotSet == "UserpassIsNotSet"

\* variant: a missing credential is treated like a wrong one
auth_MissingIsRateLimited(request, conf) ==
    IF request.method \in PUBLIC_METHODS
        THEN [compared |-> FALSE, outcome |-> AuthOk]
    ELSE IF request.userpass.some /\ Unwrap(request.userpass) = rpc_password(conf)
        THEN [compared |-> TRUE, outcome |-> AuthOk]
        ELSE [compared |-> request.userpass.some, outcome |-> AuthRateLimit]

\* variant: a supplied credential is compared before the public exemption
auth_ComparesBeforePublic(request, conf) ==
    IF request.userpass.some /\ Unwrap(request.userpass) = rpc_password(conf)
        THEN [compared |-> TRUE, outcome |-> AuthOk]
    ELSE IF request.userpass.some
        THEN [compared |-> TRUE, outcome |-> AuthRateLimit]
    ELSE IF request.method \in PUBLIC_METHODS
        THEN [compared |-> FALSE, outcome |-> AuthOk]
        ELSE [compared |-> FALSE, outcome |-> AuthNotSet]

\* variant: a public method is exempt only when no credential is supplied
auth_PublicOnlyWithoutCredential(request, conf) ==
    IF request.method \in PUBLIC_METHODS /\ ~request.userpass.some
        THEN [compared |-> FALSE, outcome |-> AuthOk]
    ELSE IF request.userpass.some /\ Unwrap(request.userpass) = rpc_password(conf)
        THEN [compared |-> TRUE, outcome |-> AuthOk]
    ELSE IF request.userpass.some
        THEN [compared |-> TRUE, outcome |-> AuthRateLimit]
        ELSE [compared |-> FALSE, outcome |-> AuthNotSet]

\* auth up to its await: the outcome, and whether the credential comparison
\* (the guard `userpass == rpc_password` of the first match arm) was evaluated
auth(request, conf) ==
    IF request.method \in PUBLIC_METHODS
        THEN [compared |-> FALSE, outcome |-> AuthOk]
    ELSE IF request.userpass.some /\ Unwrap(request.userpass) = rpc_password(conf)
        THEN [compared |-> TRUE, outcome |-> AuthOk]
    ELSE IF request.userpass.some
        THEN [compared |-> TRUE, outcome |-> AuthRateLimit]
        ELSE [compared |-> FALSE, outcome |-> AuthNotSet]

(***************************************************************************)
(* State.                                                                  *)
(***************************************************************************)
\* process_single_request is invoked concurrently, once per inbound request.
\* The invocations in Reqs are followed step by step; the other invocations
\* in flight are represented by the only shared state they write, the
\* failed attempts they register with the rate limiter (in_flight).
Reqs == { "a" }

\* the builds the invocations run in: default features
SpecBuilds == { b \in Builds : ~b.enable_sia }

VARIABLES
    build,           \* build configuration of the binary
    conf,            \* ctx.conf
    rate_limit_ctx,  \* result of RateLimitContext::from_ctx(&ctx): "Ok" or "Err"
    failures,        \* rate limiter: failed-auth attempts per address
    banned,          \* rate limiter: addresses under a ban
    in_flight,       \* per address: other invocations suspended in process_rate_limit
    pc,              \* position of each invocation of process_single_request
    req,             \* arguments of each invocation: req, client, local_only
    result,          \* what each invocation returned
    h,               \* per invocation: what was executed for it
    tasks,           \* task registry: TaskId -> TaskRegistryEntry
    next_task_id,    \* task registry: the next fresh TaskId
    last_call        \* task registry: the latest call and what it returned

\* the state of the task registry
registry == << tasks, next_task_id, last_call >>

vars ==
    << build, conf, rate_limit_ctx, failures, banned, in_flight, pc, req, result, h,
       registry >>

\* the response envelope MmRpcBuilder::from_result(result).version(v).id(id).build()
MmRpcBuilder(outcome, version, id) == [id |-> id, version |-> version, payload |-> outcome]

Pending == [id |-> None, version |-> "", detail |-> "", kind |-> "Pending"]
Err(e) == [id |-> None, version |-> "", detail |-> e, kind |-> "Err"]
Ok(response) ==
    [id |-> response.id, version |-> response.version,
     detail |-> response.payload, kind |-> "Ok"]
Panic == [id |-> None, version |-> "", detail |-> "unwrap", kind |-> "Panic"]

NoRequest == [client |-> [ip |-> "", port |-> 0], local_only |-> FALSE,
              req |-> [method |-> JAbsent, id |-> JAbsent, mmrpc |-> JAbsent,
                       userpass |-> JAbsent]]

\* nothing executed yet
Fresh ==
    [ handler |-> "",           \* the handler invoked
      compared |-> FALSE,       \* the credential comparison was evaluated
      auth_called |-> FALSE,    \* auth was entered
      auth_ok |-> FALSE,        \* auth returned Ok
      ban_checked |-> FALSE,    \* is_banned was consulted
      ban_passed |-> FALSE,     \* is_banned returned false
      decoded |-> FALSE,        \* the envelope decoded
      handler_calls |-> 0,      \* handlers invoked
      local_passed |-> FALSE,   \* the local-only check did not reject
      records |-> 0,            \* failed attempts registered with the rate limiter
      routed |-> FALSE ]        \* dispatcher_v2 was entered

(***************************************************************************)
(* Task registry: data.                                                    *)
(***************************************************************************)
TaskIds == 1..MaxTasks

TerminalStates == { "Completed", "Cancelled", "Failed" }

\* the registry holds no entry under an id: never created, or reaped
NoEntry == [cancel_requested |-> FALSE, state |-> "NoEntry"]
\* the entry create stores
NewEntry == [cancel_requested |-> FALSE, state |-> "Running"]

NoCall == [id |-> 0, op |-> "", ret |-> ""]
Call(op, id, ret) == [id |-> id, op |-> op, ret |-> ret]

InitRegistry ==
    /\ tasks = [id \in TaskIds |-> NoEntry]
    /\ next_task_id = 1
    /\ last_call = NoCall

Init ==
    /\ InitRegistry
    /\ build \in SpecBuilds
    /\ conf \in Confs
    /\ rate_limit_ctx \in { "Ok", "Err" }
    /\ failures = [ip \in Ips |-> 0]
    /\ banned = [ip \in Ips |-> FALSE]
    /\ in_flight = [ip \in Ips |-> 0]
    /\ pc = [r \in Reqs |-> "idle"]
    /\ req = [r \in Reqs |-> NoRequest]
    /\ result = [r \in Reqs |-> Pending]
    /\ h = [r \in Reqs |-> Fresh]

\* the decoded envelope of invocation r
Request(r) == Decode(req[r].req)

Return(r, value, hist) ==
    /\ pc' = [pc EXCEPT ![r] = "done"]
    /\ result' = [result EXCEPT ![r] = value]
    /\ h' = [h EXCEPT ![r] = hist]

Goto(r, label, hist) ==
    /\ pc' = [pc EXCEPT ![r] = label]
    /\ h' = [h EXCEPT ![r] = hist]
    /\ UNCHANGED result

(***************************************************************************)
(* Rate limiter / ban store.                                               *)
(***************************************************************************)
is_banned(ip) == banned[ip]

\* register a failed attempt; exceeding the threshold bans the address
record_failure(ip) ==
    /\ failures' = [failures EXCEPT ![ip] = @ + 1]
    /\ banned' = [banned EXCEPT ![ip] = @ \/ failures[ip] + 1 > RateLimitThreshold]

\* the ban of an address ends after the configured duration
BanExpires(ip) ==
    /\ banned[ip]
    /\ banned' = [banned EXCEPT ![ip] = FALSE]
    /\ failures' = [failures EXCEPT ![ip] = 0]
    /\ UNCHANGED << registry, build, conf, rate_limit_ctx, in_flight, pc, req, result, h >>

\* the failure window of an address that is not banned elapses
WindowElapses(ip) ==
    /\ ~banned[ip]
    /\ failures[ip] > 0
    /\ failures' = [failures EXCEPT ![ip] = 0]
    /\ UNCHANGED << registry, build, conf, rate_limit_ctx, banned, in_flight, pc, req, result, h >>

\* another invocation for a client at `ip` passes the ban gate, fails the
\* credential comparison of auth and suspends in process_rate_limit
ConcurrentAuthFails(ip) ==
    /\ rate_limit_ctx = "Ok"
    /\ ~is_banned(ip)
    /\ in_flight[ip] < MaxInFlight
    /\ in_flight' = [in_flight EXCEPT ![ip] = @ + 1]
    /\ UNCHANGED << registry, build, conf, rate_limit_ctx, failures, banned, pc, req, result, h >>

\* and registers its failed attempt
ConcurrentRateLimit(ip) ==
    /\ in_flight[ip] > 0
    /\ record_failure(ip)
    /\ in_flight' = [in_flight EXCEPT ![ip] = @ - 1]
    /\ UNCHANGED << registry, build, conf, rate_limit_ctx, pc, req, result, h >>

(***************************************************************************)
(* process_single_request, one action per step of its body.                *)
(***************************************************************************)
\* the transport hands over a request value, the client address and the flag
Receive(r, raw, client, local_only) ==
    /\ pc[r] \in { "idle", "done" }
    /\ req' = [req EXCEPT ![r] = [client |-> client, local_only |-> local_only, req |-> raw]]
    /\ pc' = [pc EXCEPT ![r] = "start"]
    /\ result' = [result EXCEPT ![r] = Pending]
    /\ h' = [h EXCEPT ![r] = Fresh]
    /\ UNCHANGED << registry, build, conf, rate_limit_ctx, failures, banned, in_flight >>

\* variant: the address part of the local-only gate runs before the decode
Start_LocalOnlyBeforeDecode(r) ==
    /\ pc[r] = "start"
    /\ IF req[r].local_only /\ ~is_loopback(req[r].client.ip) /\ ~DecodeOk(req[r].req)
          THEN Return(r, Err("LocalHostOnly"), h[r])
       ELSE IF ~DecodeOk(req[r].req)
          THEN Return(r, Err("MalformedRequest"), h[r])
       ELSE IF LocalHostOnly(Request(r), req[r].client, req[r].local_only)
          THEN Return(r, Err("LocalHostOnly"), [h[r] EXCEPT !.decoded = TRUE])
       ELSE IF rate_limit_ctx = "Err"
          THEN Return(r, Panic, [h[r] EXCEPT !.decoded = TRUE, !.local_passed = TRUE])
          ELSE Goto(r, "is_banned", [h[r] EXCEPT !.decoded = TRUE, !.local_passed = TRUE])
    /\ UNCHANGED << registry, build, conf, rate_limit_ctx, failures, banned, in_flight, req >>

\* decode, local-only gate, RateLimitContext::from_ctx(&ctx).unwrap()
Start(r) ==
    /\ pc[r] = "start"
    /\ IF ~DecodeOk(req[r].req)
          THEN Return(r, Err("MalformedRequest"), h[r])
       ELSE IF LocalHostOnly(Request(r), req[r].client, req[r].local_only)
          THEN Return(r, Err("LocalHostOnly"), [h[r] EXCEPT !.decoded = TRUE])
       ELSE IF rate_limit_ctx = "Err"
          THEN Return(r, Panic, [h[r] EXCEPT !.decoded = TRUE, !.local_passed = TRUE])
          ELSE Goto(r, "is_banned", [h[r] EXCEPT !.decoded = TRUE, !.local_passed = TRUE])
    /\ UNCHANGED << registry, build, conf, rate_limit_ctx, failures, banned, in_flight, req >>

\* variant: the test of the ban gate is negated
IsBanned_Negated(r) ==
    /\ pc[r] = "is_banned"
    /\ IF ~is_banned(req[r].client.ip)
          THEN Return(r, Err("Banned"), [h[r] EXCEPT !.ban_checked = TRUE])
          ELSE Goto(r, "auth", [h[r] EXCEPT !.ban_checked = TRUE, !.ban_passed = TRUE])
    /\ UNCHANGED << registry, build, conf, rate_limit_ctx, failures, banned, in_flight, req >>

\* variant: the ban gate lets public methods through
IsBanned_ExemptsPublic(r) ==
    /\ pc[r] = "is_banned"
    /\ IF is_banned(req[r].client.ip) /\ Request(r).method \notin PUBLIC_METHODS
          THEN Return(r, Err("Banned"), [h[r] EXCEPT !.ban_checked = TRUE])
          ELSE Goto(r, "auth", [h[r] EXCEPT !.ban_checked = TRUE, !.ban_passed = TRUE])
    /\ UNCHANGED << registry, build, conf, rate_limit_ctx, failures, banned, in_flight, req >>

\* rate_limit_ctx.is_banned(client.ip()).await
IsBanned(r) ==
    /\ pc[r] = "is_banned"
    /\ IF is_banned(req[r].client.ip)
          THEN Return(r, Err("Banned"), [h[r] EXCEPT !.ban_checked = TRUE])
          ELSE Goto(r, "auth", [h[r] EXCEPT !.ban_checked = TRUE, !.ban_passed = TRUE])
    /\ UNCHANGED << registry, build, conf, rate_limit_ctx, failures, banned, in_flight, req >>

\* variant: the result of auth is dropped instead of propagated with `?`
Auth_ResultDropped(r) ==
    /\ pc[r] = "auth"
    /\ LET a == auth(Request(r), conf)
           hist == [h[r] EXCEPT !.auth_called = TRUE, !.compared = a.compared]
       IN  CASE a.outcome = AuthOk -> Goto(r, "dispatch", [hist EXCEPT !.auth_ok = TRUE])
             [] a.outcome = AuthRateLimit -> Goto(r, "process_rate_limit", hist)
             [] a.outcome = AuthNotSet -> Goto(r, "dispatch", hist)
    /\ UNCHANGED << registry, build, conf, rate_limit_ctx, failures, banned, in_flight, req >>

\* variant: the method is looked up before the credential is checked
Auth_RoutesFirst(r) ==
    /\ pc[r] = "auth"
    /\ LET a == auth(Request(r), conf)
           hist == [h[r] EXCEPT !.auth_called = TRUE, !.compared = a.compared]
       IN  IF dispatcher_v2(Request(r).method, build) = NoSuchMethod
              THEN Return(r, Err("NoSuchMethod"), [h[r] EXCEPT !.routed = TRUE])
              ELSE CASE a.outcome = AuthOk -> Goto(r, "dispatch", [hist EXCEPT !.auth_ok = TRUE])
                     [] a.outcome = AuthRateLimit -> Goto(r, "process_rate_limit", hist)
                     [] a.outcome = AuthNotSet -> Return(r, Err("UserpassIsNotSet"), hist)
    /\ UNCHANGED << registry, build, conf, rate_limit_ctx, failures, banned, in_flight, req >>

\* auth(&request, &ctx, &client) up to process_rate_limit(ctx, client).await
Auth(r) ==
    /\ pc[r] = "auth"
    /\ LET a == auth(Request(r), conf)
           hist == [h[r] EXCEPT !.auth_called = TRUE, !.compared = a.compared]
       IN  CASE a.outcome = AuthOk -> Goto(r, "dispatch", [hist EXCEPT !.auth_ok = TRUE])
             [] a.outcome = AuthRateLimit -> Goto(r, "process_rate_limit", hist)
             [] a.outcome = AuthNotSet -> Return(r, Err("UserpassIsNotSet"), hist)
    /\ UNCHANGED << registry, build, conf, rate_limit_ctx, failures, banned, in_flight, req >>

\* Err(process_rate_limit(ctx, client).await)
ProcessRateLimit(r) ==
    /\ pc[r] = "process_rate_limit"
    /\ record_failure(req[r].client.ip)
    /\ Return(r, Err("IncorrectCredential"), [h[r] EXCEPT !.records = @ + 1])
    /\ UNCHANGED << registry, build, conf, rate_limit_ctx, in_flight, req >>

\* dispatcher_v2 and handle_mmrpc up to handler(ctx, params).await
Dispatch(r) ==
    /\ pc[r] = "dispatch"
    /\ LET handler == dispatcher_v2(Request(r).method, build)
           hist == [h[r] EXCEPT !.routed = TRUE]
       IN  IF handler = NoSuchMethod
              THEN Return(r, Err("NoSuchMethod"), hist)
              ELSE \E params_ok \in BOOLEAN :
                      IF params_ok
                         THEN Goto(r, "handler", [hist EXCEPT !.handler_calls = @ + 1, !.handler = handler])
                         ELSE Return(r, Err("MalformedRequest"), hist)
    /\ UNCHANGED << registry, build, conf, rate_limit_ctx, failures, banned, in_flight, req >>

\* the handler completes; handle_mmrpc builds the response from its result
\* variant: the envelope of a handler error is built without the request's id
HandlerReturn_ErrorWithoutId(r) ==
    /\ pc[r] = "handler"
    /\ \/ Return(r, Ok(MmRpcBuilder("result", Request(r).mmrpc, Request(r).id)), h[r])
       \/ Return(r, Ok(MmRpcBuilder("error", Request(r).mmrpc, None)), h[r])
    /\ UNCHANGED << registry, build, conf, rate_limit_ctx, failures, banned, in_flight, req >>

HandlerReturn(r) ==
    /\ pc[r] = "handler"
    /\ \E outcome \in { "result", "error" } :
          Return(r, Ok(MmRpcBuilder(outcome, Request(r).mmrpc, Request(r).id)), h[r])
    /\ UNCHANGED << registry, build, conf, rate_limit_ctx, failures, banned, in_flight, req >>

Next ==
    \/ \E r \in Reqs, raw \in RawRequests, client \in Clients, local_only \in BOOLEAN :
          Receive(r, raw, client, local_only)
    \/ \E r \in Reqs : Start(r)
    \/ \E r \in Reqs : IsBanned(r)
    \/ \E r \in Reqs : Auth(r)
    \/ \E r \in Reqs : ProcessRateLimit(r)
    \/ \E r \in Reqs : Dispatch(r)
    \/ \E r \in Reqs : HandlerReturn(r)
    \/ \E ip \in Ips : BanExpires(ip)
    \/ \E ip \in Ips : WindowElapses(ip)
    \/ \E ip \in Ips : ConcurrentAuthFails(ip)
    \/ \E ip \in Ips : ConcurrentRateLimit(ip)

Spec == Init /\ [][Next]_vars

(***************************************************************************)
(* The router under every method string.  Requests that carry the          *)
(* configured credential pass the gates and are routed, in every build.    *)
(***************************************************************************)
\* the method strings "<ns>::<key>" for the keys of a table
Prefixed(ns, table) == { ns \o key : key \in DOMAIN table }

\* every method string that has a match arm in some build
RoutedSomewhere ==
    DOMAIN TopLevelTable
    \cup Prefixed(<<"stream">>, StreamingTable)
    \cup Prefixed(<<"task">>, TaskTable)
    \cup Prefixed(<<"task">>, EnableSiaTaskTable)
    \cup Prefixed(<<"task">>, NativeOnlyTaskTable)
    \cup Prefixed(<<"task">>, WasmOnlyTaskTable)
    \cup Prefixed(<<"gui_storage">>, GuiStorageTable)
    \cup Prefixed(<<"lightning">>, LightningTable)
    \cup Prefixed(<<"experimental", "staking">>, StakingTable)
    \cup Prefixed(<<"experimental", "staking", "query">>, StakingQueryTable)

\* method strings without a match arm: empty remainders, unknown operations
\* and phases, remainders that are names of another table, several prefixes
CraftedMethods ==
    { <<"">>, <<"no_such_method">>, <<"withdraw", "">>, <<"withdraw", "init">>,
      <<"staking", "delegate">>, <<"query", "validators">>,
      <<"task">>, <<"task", "">>, <<"task", "withdraw">>, <<"task", "withdraw", "">>,
      <<"task", "withdraw", "restart">>, <<"task", "no_such", "init">>,
      <<"task", "scan_for_new_addresses", "user_action">>, <<"task", "enable_sia", "cancel">>,
      <<"task", "connect_metamask", "user_action">>, <<"task", "orderbook">>,
      <<"stream">>, <<"stream", "">>, <<"stream", "orderbook">>, <<"stream", "balance", "disable">>,
      <<"stream", "disable", "enable">>, <<"stream", "withdraw">>,
      <<"gui_storage">>, <<"gui_storage", "">>, <<"gui_storage", "withdraw">>, <<"gui_storage", "no_such">>,
      <<"experimental">>, <<"experimental", "">>, <<"experimental", "delegate">>,
      <<"experimental", "withdraw">>, <<"experimental", "staking">>, <<"experimental", "staking", "">>,
      <<"experimental", "staking", "validators">>, <<"experimental", "staking", "withdraw">>,
      <<"experimental", "staking", "query">>, <<"experimental", "staking", "query", "">>,
      <<"experimental", "staking", "query", "delegate">>, <<"experimental", "query", "validators">>,
      <<"lightning">>, <<"lightning", "">>, <<"lightning", "withdraw">>, <<"lightning", "channels">>,
      <<"lightning", "nodes", "no_such">>,
      <<"stream", "task", "withdraw", "init">>, <<"task", "stream", "balance", "enable">>,
      <<"gui_storage", "task", "withdraw", "init">>, <<"task", "gui_storage", "get_accounts">>,
      <<"experimental", "task", "withdraw", "init">>, <<"task", "experimental", "staking", "delegate">>,
      <<"experimental", "staking", "task", "withdraw", "init">>,
      <<"stream", "lightning", "nodes", "list_trusted_nodes">>,
      <<"lightning", "stream", "balance", "enable">>, <<"lightning", "task", "withdraw", "init">>,
      <<"gui_storage", "lightning", "nodes", "list_trusted_nodes">>,
      <<"task", "task", "withdraw", "init">>, <<"stream", "stream", "disable">>,
      <<"stream", "withdraw", "task", "withdraw", "init">> }

RouteMethods == RoutedSomewhere \cup CraftedMethods

\* the request value for a method string, with the configured credential
\* the optional correlation id of a request: absent or a number
RequestIds == { JAbsent, JNum(1), JNum(2) }

RouteRequest(m, id) ==
    [method |-> JStr(m), id |-> id, mmrpc |-> JStr("2.0"), userpass |-> JStr("pw")]

InitRouter ==
    /\ InitRegistry
    /\ build \in Builds
    /\ conf = [rpc_password |-> JStr("pw")]
    /\ rate_limit_ctx = "Ok"
    /\ failures = [ip \in Ips |-> 0]
    /\ banned = [ip \in Ips |-> FALSE]
    /\ in_flight = [ip \in Ips |-> 0]
    /\ pc = [r \in Reqs |-> "idle"]
    /\ req = [r \in Reqs |-> NoRequest]
    /\ result = [r \in Reqs |-> Pending]
    /\ h = [r \in Reqs |-> Fresh]

NextRouter ==
    \/ \E r \in Reqs, m \in RouteMethods, id \in RequestIds, client \in Clients :
          \* routing keeps no state between requests: one request per behaviour
          /\ pc[r] = "idle"
          /\ Receive(r, RouteRequest(m, id), client, FALSE)
    \/ \E r \in Reqs : Start(r)
    \/ \E r \in Reqs : IsBanned(r)
    \/ \E r \in Reqs : Auth(r)
    \/ \E r \in Reqs : Dispatch(r)
    \/ \E r \in Reqs : HandlerReturn(r)

SpecRouter == InitRouter /\ [][NextRouter]_vars

(***************************************************************************)
(* Task registry: the calls create, status, cancel and user_action, the    *)
(* steps of the underlying operation, and reaping.                         *)
(***************************************************************************)
dispatcher == << build, conf, rate_limit_ctx, failures, banned, in_flight, pc, req, result, h >>

Exists(id) == tasks[id].state # "NoEntry"
Terminal(id) == tasks[id].state \in TerminalStates

\* create(input) -> TaskId: a fresh id, initial state Running
create ==
    /\ next_task_id <= MaxTasks
    /\ tasks' = [tasks EXCEPT ![next_task_id] = NewEntry]
    /\ next_task_id' = next_task_id + 1
    /\ last_call' = Call("create", next_task_id, "TaskId")
    /\ UNCHANGED dispatcher

\* status(id) -> TaskState | UnknownTask: a read
status(id) ==
    /\ last_call' = Call("status", id, IF Exists(id) THEN tasks[id].state ELSE "UnknownTask")
    /\ UNCHANGED << tasks, next_task_id, dispatcher >>

\* variant: cancel takes effect at once, whatever the state of the task
cancel_Preemptive(id) ==
    /\ IF ~Exists(id)
          THEN /\ last_call' = Call("cancel", id, "UnknownTask")
               /\ UNCHANGED tasks
          ELSE /\ last_call' = Call("cancel", id, "Ok")
               /\ tasks' = [tasks EXCEPT ![id] = [cancel_requested |-> TRUE,
                                                  state |-> "Cancelled"]]
    /\ UNCHANGED << next_task_id, dispatcher >>

\* cancel(id) -> Ok(()) | UnknownTask | AlreadyTerminal: requests cooperative
\* cancellation; the operation observes the request at its next checkpoint
cancel(id) ==
    /\ IF ~Exists(id)
          THEN /\ last_call' = Call("cancel", id, "UnknownTask")
               /\ UNCHANGED tasks
          ELSE IF Terminal(id)
          THEN /\ last_call' = Call("cancel", id, "AlreadyTerminal")
               /\ UNCHANGED tasks
          ELSE /\ last_call' = Call("cancel", id, "Ok")
               /\ tasks' = [tasks EXCEPT ![id].cancel_requested = TRUE]
    /\ UNCHANGED << next_task_id, dispatcher >>

\* user_action(id, data) -> Ok(()) | UnknownTask | NotAwaitingAction: unblocks
\* the continuation of a task in AwaitingUserAction
user_action(id) ==
    /\ IF ~Exists(id)
          THEN /\ last_call' = Call("user_action", id, "UnknownTask")
               /\ UNCHANGED tasks
          ELSE IF tasks[id].state # "AwaitingUserAction"
          THEN /\ last_call' = Call("user_action", id, "NotAwaitingAction")
               /\ UNCHANGED tasks
          ELSE /\ last_call' = Call("user_action", id, "Ok")
               /\ tasks' = [tasks EXCEPT ![id].state = "Running"]
    /\ UNCHANGED << next_task_id, dispatcher >>

\* the operation needs external input
AwaitUserAction(id) ==
    /\ tasks[id].state = "Running"
    /\ tasks' = [tasks EXCEPT ![id].state = "AwaitingUserAction"]
    /\ UNCHANGED << next_task_id, last_call, dispatcher >>

\* the underlying asynchronous work finishes
Finish(id) ==
    /\ tasks[id].state = "Running"
    /\ \E outcome \in { "Completed", "Failed" } :
          tasks' = [tasks EXCEPT ![id].state = outcome]
    /\ UNCHANGED << next_task_id, last_call, dispatcher >>

\* the operation reaches a checkpoint and observes the cancellation request
ObserveCancel(id) ==
    /\ tasks[id].state \in { "Running", "AwaitingUserAction" }
    /\ tasks[id].cancel_requested
    /\ tasks' = [tasks EXCEPT ![id].state = "Cancelled"]
    /\ UNCHANGED << next_task_id, last_call, dispatcher >>

\* a terminal entry is removed after its retention period
Reap(id) ==
    /\ Terminal(id)
    /\ tasks' = [tasks EXCEPT ![id] = NoEntry]
    /\ UNCHANGED << next_task_id, last_call, dispatcher >>

InitTasks ==
    /\ InitRegistry
    /\ build = [enable_sia |-> FALSE, wasm32 |-> FALSE]
    /\ conf = [rpc_password |-> JStr("pw")]
    /\ rate_limit_ctx = "Ok"
    /\ failures = [ip \in Ips |-> 0]
    /\ banned = [ip \in Ips |-> FALSE]
    /\ in_flight = [ip \in Ips |-> 0]
    /\ pc = [r \in Reqs |-> "idle"]
    /\ req = [r \in Reqs |-> NoRequest]
    /\ result = [r \in Reqs |-> Pending]
    /\ h = [r \in Reqs |-> Fresh]

NextTasks ==
    \/ create
    \/ \E id \in TaskIds : status(id)
    \/ \E id \in TaskIds : cancel(id)
    \/ \E id \in TaskIds : user_action(id)
    \/ \E id \in TaskIds : AwaitUserAction(id)
    \/ \E id \in TaskIds : Finish(id)
    \/ \E id \in TaskIds : ObserveCancel(id)
    \/ \E id \in TaskIds : Reap(id)

SpecTasks == InitTasks /\ [][NextTasks]_vars

(***************************************************************************)
(* Vocabulary of the properties.                                           *)
(***************************************************************************)
Method(r) == Request(r).method
Public(r) == Method(r) \in PUBLIC_METHODS
Userpass(r) == Request(r).userpass
CredentialSupplied(r) == Userpass(r).some
CredentialMatches(r) ==
    /\ Userpass(r).some
    /\ Unwrap(Userpass(r)) = (IF conf.rpc_password.t = "string" THEN conf.rpc_password.v[1] ELSE "")
ClientIp(r) == req[r].client.ip
Remote(r) == ClientIp(r) # "127.0.0.1"
Stepped(r) == pc'[r] # pc[r]
RateLimiterChanged == failures' # failures \/ banned' # banned
NothingExecutedAfter(r, gate) ==
    /\ gate = "decode" => ~h[r].decoded /\ ~h[r].local_passed
    /\ gate \in { "decode", "local" } => ~h[r].ban_checked
    /\ ~h[r].ban_passed /\ ~h[r].auth_called /\ ~h[r].compared /\ ~h[r].auth_ok
    /\ ~h[r].routed /\ h[r].records = 0 /\ h[r].handler_calls = 0

(***************************************************************************)
(* C1.  A handler is invoked only after every gate has passed for that     *)
(* same request: the envelope decoded, the local-only check did not        *)
(* reject, the client was found not banned, auth returned Ok.  A request   *)
(* that ends at one of the gates has had no handler invoked.               *)
(***************************************************************************)
C1_HandlerOnlyAfterGates ==
    \A r \in Reqs :
        /\ h[r].handler_calls > 0 =>
              /\ DecodeOk(req[r].req) /\ h[r].decoded
              /\ ~(req[r].local_only /\ Remote(r) /\ ~Public(r)) /\ h[r].local_passed
              /\ h[r].ban_checked /\ h[r].ban_passed
              /\ h[r].auth_called /\ h[r].auth_ok
              /\ Public(r) \/ CredentialMatches(r)
        /\ ( /\ pc[r] = "done"
             /\ \/ ~DecodeOk(req[r].req)
                \/ result[r] \in { Err("LocalHostOnly"), Err("Banned"),
                                   Err("UserpassIsNotSet"), Err("IncorrectCredential") } )
           => h[r].handler_calls = 0

\* a handler is running for a protected method called by a remote client
C1_Witness ==
    \E r \in Reqs :
        /\ pc[r] = "handler" /\ h[r].handler_calls = 1
        /\ ~Public(r) /\ Remote(r)

(***************************************************************************)
(* C2 as stated.  A request that decodes, of a client that is banned when  *)
(* process_single_request runs for it, is rejected with Banned.            *)
(***************************************************************************)
C2_Original ==
    [][ \A r \in Reqs :
            ( /\ pc[r] = "start" /\ DecodeOk(req[r].req)
              /\ is_banned(ClientIp(r)) /\ pc'[r] = "done" )
                => result'[r] = Err("Banned") ]_vars

(***************************************************************************)
(* C2 amended.  A request that reaches the ban gate while its client is    *)
(* banned is rejected with Banned there, and neither the credential        *)
(* comparison of auth nor a rate-limiter failure record nor a handler      *)
(* executes for a request rejected with Banned.  A request of a banned     *)
(* client that ends before the ban gate ends with the decode error or      *)
(* LocalHostOnly, again without credential comparison.                     *)
(***************************************************************************)
C2_BannedBeforeAuth ==
    /\ [][ \A r \in Reqs :
              /\ (pc[r] = "is_banned" /\ is_banned(ClientIp(r)) /\ Stepped(r))
                    => /\ pc'[r] = "done" /\ result'[r] = Err("Banned")
                       /\ ~h'[r].auth_called /\ ~h'[r].compared /\ h'[r].records = 0
              /\ (pc[r] = "start" /\ is_banned(ClientIp(r)) /\ pc'[r] = "done")
                    => /\ result'[r] \in { Err("MalformedRequest"), Err("LocalHostOnly") }
                       /\ ~h'[r].auth_called /\ ~h'[r].compared /\ h'[r].records = 0 ]_vars
    /\ [](\A r \in Reqs :
              result[r] = Err("Banned")
                  => /\ h[r].ban_checked /\ ~h[r].ban_passed
                     /\ ~h[r].auth_called /\ ~h[r].compared
                     /\ h[r].records = 0 /\ h[r].handler_calls = 0)

\* a protected call with a wrong credential was rejected with Banned
C2_Witness ==
    \E r \in Reqs :
        /\ pc[r] = "done" /\ result[r] = Err("Banned")
        /\ ~Public(r) /\ CredentialSupplied(r) /\ ~CredentialMatches(r)
        /\ is_banned(ClientIp(r))

(***************************************************************************)
(* C3 as stated.  A call of a public method passes process_single_request  *)
(* and reaches the router also when its client is banned: it never ends    *)
(* with Banned.                                                            *)
(***************************************************************************)
C3_Original ==
    \A r \in Reqs :
        (pc[r] = "done" /\ DecodeOk(req[r].req) /\ Public(r) /\ rate_limit_ctx = "Ok")
            => result[r] # Err("Banned") /\ h[r].routed

(***************************************************************************)
(* C3 amended.  auth authorizes a public method unconditionally, so a      *)
(* public call of a client that is not banned when is_banned is consulted  *)
(* (whatever failed attempts it has on record) passes every gate without   *)
(* credential comparison and reaches the router; a public call of a client *)
(* that is banned at that point is rejected with Banned like any other.    *)
(***************************************************************************)
C3_PublicPassesUnlessBanned ==
    /\ [](\A r \in Reqs :
              (pc[r] = "done" /\ DecodeOk(req[r].req) /\ Public(r) /\ rate_limit_ctx = "Ok")
                  => /\ h[r].ban_checked
                     /\ h[r].ban_passed <=> result[r] # Err("Banned")
                     /\ h[r].ban_passed => h[r].auth_ok /\ ~h[r].compared /\ h[r].routed
                     /\ h[r].ban_passed /\ dispatcher_v2(Method(r), build) # NoSuchMethod
                           => result[r] = Err("MalformedRequest") \/ h[r].handler_calls = 1)
    /\ [][ \A r \in Reqs :
              (pc[r] = "is_banned" /\ Public(r) /\ Stepped(r))
                  => IF banned[ClientIp(r)]
                        THEN pc'[r] = "done" /\ result'[r] = Err("Banned")
                        ELSE pc'[r] = "auth" ]_vars

\* a public call without credential, of a remote client in local-only mode
\* with a failed attempt on record, has its handler running
C3_Witness ==
    \E r \in Reqs :
        /\ pc[r] = "handler" /\ Public(r) /\ ~CredentialSupplied(r)
        /\ Remote(r) /\ req[r].local_only
        /\ failures[ClientIp(r)] > 0 /\ ~banned[ClientIp(r)]

(***************************************************************************)
(* C4.  For a protected method of a client found not banned: auth succeeds *)
(* when the supplied credential equals the configured one; it fails with   *)
(* UserpassIsNotSet when no credential is supplied, and registers no       *)
(* failed attempt; it fails with IncorrectCredential when a credential is  *)
(* supplied but differs, and registers exactly one failed attempt, which   *)
(* raises the failure count of that client by one.                         *)
(***************************************************************************)
C4_ProtectedAuth ==
    /\ [](\A r \in Reqs :
              (pc[r] \in { "dispatch", "handler", "process_rate_limit", "done" }
                 /\ DecodeOk(req[r].req) /\ h[r].auth_called /\ ~Public(r))
                  => CASE CredentialMatches(r) ->
                             /\ h[r].auth_ok /\ h[r].records = 0
                             /\ result[r] \notin { Err("UserpassIsNotSet"), Err("IncorrectCredential") }
                       [] ~CredentialSupplied(r) ->
                             /\ pc[r] = "done" /\ result[r] = Err("UserpassIsNotSet")
                             /\ ~h[r].auth_ok /\ h[r].records = 0
                       [] OTHER ->
                             /\ ~h[r].auth_ok
                             /\ IF pc[r] = "done"
                                   THEN result[r] = Err("IncorrectCredential") /\ h[r].records = 1
                                   ELSE pc[r] = "process_rate_limit" /\ h[r].records = 0)
    /\ [][ \A r \in Reqs :
              /\ (pc[r] = "auth" /\ Stepped(r)) => ~RateLimiterChanged
              /\ (pc[r] = "process_rate_limit" /\ Stepped(r))
                    => /\ failures'[ClientIp(r)] = failures[ClientIp(r)] + 1
                       /\ h'[r].records = h[r].records + 1
                       /\ \A ip \in Ips \ { ClientIp(r) } : failures'[ip] = failures[ip] ]_vars

\* a protected call with a wrong credential ended with IncorrectCredential
C4_Witness ==
    \E r \in Reqs :
        /\ pc[r] = "done" /\ result[r] = Err("IncorrectCredential")
        /\ ~Public(r) /\ CredentialSupplied(r) /\ ~CredentialMatches(r)
        /\ h[r].records = 1 /\ failures[ClientIp(r)] >= 1

(***************************************************************************)
(* C5.  A step of process_single_request or auth changes rate limiter      *)
(* state only for a protected method with a supplied credential that does  *)
(* not match, and then only the record of that client: decode failure,     *)
(* LocalHostOnly, Banned, a public method with any credential, a correct   *)
(* credential and a missing credential leave every record unchanged.       *)
(***************************************************************************)
C5_OnlyMismatchMutatesRateLimiter ==
    /\ [][ \A r \in Reqs :
              (Stepped(r) /\ RateLimiterChanged)
                  => /\ DecodeOk(req[r].req)
                     /\ ~Public(r) /\ CredentialSupplied(r) /\ ~CredentialMatches(r)
                     /\ h[r].ban_passed /\ h[r].compared
                     /\ \A ip \in Ips \ { ClientIp(r) } :
                           failures'[ip] = failures[ip] /\ banned'[ip] = banned[ip] ]_vars
    /\ [](\A r \in Reqs :
              h[r].records > 0
                  => /\ DecodeOk(req[r].req)
                     /\ ~Public(r) /\ CredentialSupplied(r) /\ ~CredentialMatches(r)
                     /\ result[r] = Err("IncorrectCredential"))

\* a public call with a wrong credential has its handler running and has
\* registered nothing
C5_Witness ==
    \E r \in Reqs :
        /\ pc[r] = "handler" /\ Public(r)
        /\ CredentialSupplied(r) /\ ~CredentialMatches(r)
        /\ h[r].records = 0 /\ failures[ClientIp(r)] = 0

(***************************************************************************)
(* C6.  auth returns Ok for a method in PUBLIC_METHODS whatever the        *)
(* credential field holds (absent, the configured password, any other      *)
(* value), and without evaluating the credential comparison.               *)
(***************************************************************************)
Credentials == { None } \cup { Some(p) : p \in Passwords \cup { "garbage" } }

C6_PublicAuthOk ==
    \A r \in Reqs :
        (DecodeOk(req[r].req) /\ Public(r))
            => /\ \A u \in Credentials :
                     auth([Request(r) EXCEPT !.userpass = u], conf)
                        = [compared |-> FALSE, outcome |-> AuthOk]
               /\ h[r].auth_called => h[r].auth_ok /\ ~h[r].compared

\* auth has returned Ok for a public call that carries a wrong credential
C6_Witness ==
    \E r \in Reqs :
        /\ pc[r] = "dispatch" /\ Public(r) /\ h[r].auth_ok
        /\ CredentialSupplied(r) /\ ~CredentialMatches(r)

(***************************************************************************)
(* C7.  A decoded request is rejected with LocalHostOnly exactly when      *)
(* local_only is set, the client address is not loopback and the method    *)
(* is not public; the rejection happens before the ban lookup and auth.    *)
(***************************************************************************)
C7_LocalHostOnlyExactly ==
    \A r \in Reqs :
        /\ (DecodeOk(req[r].req) /\ pc[r] \notin { "idle", "start" })
              => ( result[r] = Err("LocalHostOnly")
                      <=> (req[r].local_only /\ Remote(r) /\ ~Public(r)) )
        /\ result[r] = Err("LocalHostOnly")
              => /\ DecodeOk(req[r].req) /\ pc[r] = "done"
                 /\ NothingExecutedAfter(r, "local")

\* a remote call of a protected method with the right credential was
\* rejected with LocalHostOnly
C7_Witness ==
    \E r \in Reqs :
        /\ pc[r] = "done" /\ result[r] = Err("LocalHostOnly")
        /\ CredentialMatches(r)

(***************************************************************************)
(* C8.  An auth failure does not depend on the method name: a request for  *)
(* a non-public method with a missing or wrong credential never enters the *)
(* router, every gate decides it as it decides the same request for any    *)
(* other non-public method, and the error it ends with is a function of    *)
(* the client, the flag, the credential and the ban lookup alone.          *)
(* NoSuchMethod is returned only after auth has returned Ok.               *)
(***************************************************************************)
ProtectedMethodInputs == MethodInputs \ PUBLIC_METHODS

AuthFailureOf(r) ==
    IF req[r].local_only /\ Remote(r) THEN Err("LocalHostOnly")
    ELSE IF rate_limit_ctx = "Err" THEN Panic
    ELSE IF ~h[r].ban_passed THEN Err("Banned")
    ELSE IF ~CredentialSupplied(r) THEN Err("UserpassIsNotSet")
    ELSE Err("IncorrectCredential")

C8_AuthFailureHidesMethod ==
    \A r \in Reqs :
        /\ (DecodeOk(req[r].req) /\ ~Public(r) /\ ~CredentialMatches(r))
              => /\ ~h[r].routed /\ h[r].handler_calls = 0
                 /\ pc[r] = "done" => result[r] = AuthFailureOf(r)
                 /\ \A m \in ProtectedMethodInputs :
                       LET other == [Request(r) EXCEPT !.method = m] IN
                       /\ LocalHostOnly(other, req[r].client, req[r].local_only)
                             = LocalHostOnly(Request(r), req[r].client, req[r].local_only)
                       /\ auth(other, conf) = auth(Request(r), conf)
        /\ result[r] = Err("NoSuchMethod")
              => /\ h[r].auth_ok /\ h[r].routed
                 /\ Public(r) \/ CredentialMatches(r)

\* a call of a protected method that the router does not know ended with
\* the error of auth
C8_Witness ==
    \E r \in Reqs :
        /\ pc[r] = "done" /\ result[r] = Err("UserpassIsNotSet")
        /\ dispatcher_v2(Method(r), build) = NoSuchMethod

(***************************************************************************)
(* C9.  A request value that does not decode into the envelope is rejected *)
(* with the decode error by the first step: no local-only rejection, ban   *)
(* lookup, credential comparison, rate-limit record or handler call        *)
(* happens for it.                                                         *)
(***************************************************************************)
C9_MalformedRejectedFirst ==
    /\ [](\A r \in Reqs :
              (pc[r] \notin { "idle", "start" } /\ ~DecodeOk(req[r].req))
                  => /\ pc[r] = "done" /\ result[r] = Err("MalformedRequest")
                     /\ NothingExecutedAfter(r, "decode"))
    /\ [][ \A r \in Reqs :
              (pc[r] = "start" /\ ~DecodeOk(req[r].req) /\ Stepped(r))
                  => pc'[r] = "done" /\ ~RateLimiterChanged ]_vars

\* a request with an unsupported protocol version, of a banned remote
\* client in local-only mode, ended with the decode error
C9_Witness ==
    \E r \in Reqs :
        /\ pc[r] = "done" /\ result[r] = Err("MalformedRequest")
        /\ req[r].req.mmrpc.v = << "1.0" >>
        /\ banned[ClientIp(r)] /\ Remote(r) /\ req[r].local_only

(***************************************************************************)
(* C10.  process_single_request always ends by returning a response or a   *)
(* DispatcherError value, never in an unhandled failure, also when the     *)
(* rate-limit context cannot be obtained from the context.                 *)
(***************************************************************************)
C10_NoUnhandledFailure ==
    \A r \in Reqs : pc[r] = "done" => result[r].kind \in { "Ok", "Err" }

(***************************************************************************)
(* Vocabulary of the routing properties.                                   *)
(***************************************************************************)
\* the method strings that have a match arm in build b
KnownMethods(b) ==
    DOMAIN TopLevelTable
    \cup Prefixed(<<"stream">>, StreamingTable)
    \cup Prefixed(<<"task">>, TaskTable)
    \cup (IF b.enable_sia THEN Prefixed(<<"task">>, EnableSiaTaskTable) ELSE {})
    \cup (IF b.wasm32
             THEN Prefixed(<<"task">>, WasmOnlyTaskTable)
             ELSE Prefixed(<<"task">>, NativeOnlyTaskTable)
                     \cup Prefixed(<<"lightning">>, LightningTable))
    \cup Prefixed(<<"gui_storage">>, GuiStorageTable)
    \cup Prefixed(<<"experimental", "staking">>, StakingTable)
    \cup Prefixed(<<"experimental", "staking", "query">>, StakingQueryTable)

\* the router has decided the request of invocation r
Routed(r) == pc[r] \in { "handler", "done" } /\ h[r].routed

(***************************************************************************)
(* C11.  dispatcher_v2 is total with an explicit miss: every method string *)
(* that has no match arm in the build (not a flat top-level name, and its  *)
(* remainder after a recognized prefix not an entry of that namespace's    *)
(* table) yields NoSuchMethod, and no handler is invoked for it.           *)
(***************************************************************************)
C11_MissIsNoSuchMethod ==
    \A r \in Reqs :
        (Routed(r) /\ Method(r) \notin KnownMethods(build))
            => /\ dispatcher_v2(Method(r), build) = NoSuchMethod
               /\ pc[r] = "done" /\ result[r] = Err("NoSuchMethod")
               /\ h[r].handler_calls = 0 /\ h[r].handler = ""

\* "experimental::" followed by a staking entry without "staking::" ended
\* with NoSuchMethod
C11_Witness ==
    \E r \in Reqs :
        /\ pc[r] = "done" /\ result[r] = Err("NoSuchMethod")
        /\ Method(r) = <<"experimental", "delegate">>

(***************************************************************************)
(* C12.  Prefix matching is strictly ordered stream::, task::,             *)
(* gui_storage::, experimental::, lightning::.  A method string is routed  *)
(* by the sub-router of the first namespace in that order whose prefix it  *)
(* starts with, on the remainder; namespace names further inside the       *)
(* string are not interpreted, so a string with several valid-looking      *)
(* prefixes never gets a handler of another namespace.                     *)
(***************************************************************************)
Namespaces(b) ==
    <<"stream", "task", "gui_storage", "experimental">>
        \o (IF b.wasm32 THEN <<>> ELSE <<"lightning">>)

StartsWith(m, ns) == Len(m) >= 2 /\ m[1] = ns

\* the first namespace, in the listed order, whose prefix m starts with
FirstListed(m, b) ==
    LET hits == { i \in 1..Len(Namespaces(b)) : StartsWith(m, Namespaces(b)[i]) }
    IN  IF hits = {} THEN ""
        ELSE Namespaces(b)[CHOOSE i \in hits : \A j \in hits : i <= j]

SubRouter(ns, rest, b) ==
    CASE ns = "stream" -> rpc_streaming_dispatcher(rest)
      [] ns = "task" -> rpc_task_dispatcher(rest, b)
      [] ns = "gui_storage" -> gui_storage_dispatcher(rest)
      [] ns = "experimental" -> experimental_rpcs_dispatcher(rest)
      [] ns = "lightning" -> lightning_dispatcher(rest)

\* the handlers a namespace can route to
HandlersOf(ns, b) ==
    { SubRouter(ns, SubSeq(m, 2, Len(m)), b) : m \in { k \in RouteMethods : StartsWith(k, ns) } }
        \ { NoSuchMethod }

\* m holds at least two namespace names in prefix position
SeveralPrefixes(m) ==
    Cardinality({ i \in 1..(Len(m) - 1) :
                    m[i] \in { "stream", "task", "gui_storage", "experimental", "lightning" } }) >= 2

TaskPhase(m, name) == Len(m) >= 3 /\ m[1] = "task" /\ m[2] = name

\* m names a method of the other target
WrongBuild(m, b) ==
    IF b.wasm32
        THEN StartsWith(m, "lightning") \/ TaskPhase(m, "enable_lightning")
        ELSE TaskPhase(m, "connect_metamask")

C13_WrongBuildIsNoSuchMethod ==
    \A r \in Reqs :
        (Routed(r) /\ WrongBuild(Method(r), build))
            => /\ dispatcher_v2(Method(r), build) = NoSuchMethod
               /\ pc[r] = "done" /\ result[r] = Err("NoSuchMethod")
               /\ h[r].handler_calls = 0 /\ h[r].handler = ""

\* "task::enable_lightning::init" ended with NoSuchMethod on a wasm32 build
C13_Witness ==
    \E r \in Reqs :
        /\ build.wasm32
        /\ pc[r] = "done" /\ result[r] = Err("NoSuchMethod")
        /\ h[r].routed /\ h[r].handler_calls = 0
        /\ Method(r) = <<"task", "enable_lightning", "init">>

(***************************************************************************)
(* C14.  A response carries the protocol version and the correlation id of *)
(* the request that produced it, both when the handler succeeded and when  *)
(* it failed: the envelope's version is the request's "2.0" (V2), and its  *)
(* id is the request's id, or absent when the request had none.            *)
(***************************************************************************)
\* invocation r returned a response envelope
Responded(r) == pc[r] = "done" /\ result[r].kind = "Ok"

C14_ResponseMirrorsVersionAndId ==
    \A r \in Reqs :
        Responded(r)
            => /\ result[r].detail \in { "result", "error" }
               /\ req[r].req.mmrpc = JStr("2.0") /\ result[r].version = "V2"
               /\ result[r].id = IF req[r].req.id.t = "number"
                                     THEN Some(req[r].req.id.v[1])
                                     ELSE None

\* a handler error was returned in an envelope with the request's id 2
C14_Witness ==
    \E r \in Reqs :
        /\ Responded(r) /\ result[r].detail = "error"
        /\ req[r].req.id = JNum(2) /\ result[r].id = Some(2)
        /\ result[r].version = "V2"

(***************************************************************************)
(* C15.  Once a task's state is Completed, Cancelled or Failed, no status, *)
(* cancel or user_action call and no step of the underlying operation      *)
(* changes that state for as long as the entry exists; cancel on such a    *)
(* task returns AlreadyTerminal and leaves the state as it was.            *)
(***************************************************************************)
\* this step is a call of cancel on task id
CancelCalled(id) ==
    /\ last_call' # last_call
    /\ last_call'.op = "cancel" /\ last_call'.id = id

C15_TerminalStateImmutable ==
    [][ \A id \in TaskIds :
          Terminal(id)
              => /\ tasks'[id].state \in { tasks[id].state, "NoEntry" }
                 /\ CancelCalled(id)
                       => /\ last_call'.ret = "AlreadyTerminal"
                          /\ tasks'[id].state = tasks[id].state ]_vars

\* cancel on a task that had completed returned AlreadyTerminal
C15_Witness ==
    \E id \in TaskIds :
        /\ tasks[id].state = "Completed"
        /\ last_call = Call("cancel", id, "AlreadyTerminal")

(***************************************************************************)
(* C16.  Once a namespace prefix matches, routing is decided by that       *)
(* namespace's table on the remainder alone and never falls back to the    *)
(* flat top-level table: "task::withdraw", "stream::orderbook" and         *)
(* "gui_storage::withdraw" yield NoSuchMethod although the remainder is a  *)
(* top-level name, and an arm of the flat table is reached only by a       *)
(* method string without a recognized prefix.                              *)
(***************************************************************************)
\* the match arms below a namespace prefix, keyed by the remainder
NamespaceTable(ns, b) ==
    CASE ns = "stream" -> StreamingTable
      [] ns = "task" ->
            TaskTable
                @@ (IF b.enable_sia THEN EnableSiaTaskTable ELSE <<>>)
                @@ (IF b.wasm32 THEN WasmOnlyTaskTable ELSE NativeOnlyTaskTable)
      [] ns = "gui_storage" -> GuiStorageTable
      [] ns = "experimental" ->
            [k \in Prefixed(<<"staking">>, StakingTable) |-> StakingTable[Tail(k)]]
                @@ [k \in Prefixed(<<"staking", "query">>, StakingQueryTable) |->
                        StakingQueryTable[Tail(Tail(k))]]
      [] ns = "lightning" -> LightningTable

\* what the table of the namespace leading m holds for the remainder of m
NamespaceEntry(m, b) ==
    MatchArms(NamespaceTable(FirstListed(m, b), b), Tail(m))

\* the three methods whose remainder is a top-level name
RemainderIsTopLevel ==
    { <<"task", "withdraw">>, <<"stream", "orderbook">>, <<"gui_storage", "withdraw">> }

C16_NoFallbackToFlatTable ==
    \A r \in Reqs :
        Routed(r)
            => /\ dispatcher_v2(Method(r), build) =
                      IF FirstListed(Method(r), build) # ""
                          THEN NamespaceEntry(Method(r), build)
                          ELSE MatchArms(TopLevelTable, Method(r))
               /\ Method(r) \in RemainderIsTopLevel
                     => /\ Tail(Method(r)) \in DOMAIN TopLevelTable
                        /\ result[r] = Err("NoSuchMethod")
               /\ FirstListed(Method(r), build) # ""
                     => IF NamespaceEntry(Method(r), build) = NoSuchMethod
                            THEN /\ pc[r] = "done" /\ result[r] = Err("NoSuchMethod")
                                 /\ h[r].handler_calls = 0
                            ELSE /\ result[r] # Err("NoSuchMethod")
                                 /\ h[r].handler_calls > 0
                                       => h[r].handler = NamespaceEntry(Method(r), build)

\* "gui_storage::withdraw" ended with NoSuchMethod and the top-level handler of
\* "withdraw" was not invoked
C16_Witness ==
    \E r \in Reqs :
        /\ pc[r] = "done" /\ result[r] = Err("NoSuchMethod")
        /\ h[r].routed /\ h[r].handler = ""
        /\ Method(r) = <<"gui_storage", "withdraw">>

=============================================================================
